---- MODULE Spec2Model ----
(***************************************************************************)
(* Model of the container vulnerability report pipeline (pccs_cvr):        *)
(*   cleanse_k8s_resouces_csv  - validity filter, list split, dedup        *)
(*   generate_final_report     - suffix join, grouping, sort, two writers  *)
(*   POST /cvr                 - the report trigger of the HTTP layer      *)
(*                                                                         *)
(* Strings the code inspects character by character (split, endswith,      *)
(* lexicographic comparison, join) are sequences of one-character strings. *)
(* Strings the code only compares for equality or uses as dictionary keys  *)
(* (PARENT_KIND, PARENT_NAME, CMDB, Severity, labels) are TLA+ strings.    *)
(***************************************************************************)
EXTENDS Integers, Sequences, FiniteSets, TLC

VARIABLES
    cl_pc,        \* position of the cleansing run: "init", "cleansed", "recleansed"
    cl_data,      \* argument `data` of the last cleanse_k8s_resouces_csv call
    cl_result,    \* its return value
    files,        \* the file system: a function from the existing paths to contents
    gen_pc,       \* outcome of the last generate_final_report call: "idle", "returned", "raised"
    gen_args,     \* its arguments
    gen_rows,     \* its final_rows after the sort
    gen_opened,   \* the paths it opened for writing, in order
    gen_before,   \* the file system when it was called
    cvr,          \* the last POST /cvr request and its response
    dl            \* the GET /download requests in flight and the clock

vars == <<cl_pc, cl_data, cl_result, files, gen_pc, gen_args, gen_rows,
          gen_opened, gen_before, cvr, dl>>

\* ------------------------------------------------------------------------
\* Bounds
\* ------------------------------------------------------------------------
MaxRows == 3      \* longest raw inventory sequence handed to the cleanser
MaxRequests == 2  \* number of GET /download requests
MaxClock == 1     \* seconds the clock advances while the requests are served

\* ------------------------------------------------------------------------
\* Strings
\* ------------------------------------------------------------------------
EmptyStr == <<>>
NoneStr == <<"<", "n", "o", "n", "e", ">">>
Comma == ","

\* Code points of the characters that occur in the modelled strings.
CharCode(c) ==
    CASE c = " " -> 32 [] c = "," -> 44 [] c = "-" -> 45
      [] c = "0" -> 48 [] c = "1" -> 49 [] c = "2" -> 50 [] c = "3" -> 51
      [] c = "4" -> 52 [] c = "5" -> 53 [] c = "6" -> 54 [] c = "7" -> 55
      [] c = "8" -> 56 [] c = "9" -> 57 [] c = ":" -> 58 [] c = "<" -> 60
      [] c = ">" -> 62 [] c = "C" -> 67 [] c = "E" -> 69 [] c = "V" -> 86
      [] c = "t" -> 116 [] c = "a" -> 97 [] c = "b" -> 98 [] c = "e" -> 101
      [] c = "h" -> 104 [] c = "n" -> 110 [] c = "o" -> 111 [] c = "s" -> 115
      [] c = "x" -> 120 [] c = "y" -> 121

\* str.split(','): the pieces between the commas, always at least one piece.
RECURSIVE split(_)
split(s) ==
    IF \E i \in 1..Len(s) : s[i] = Comma
    THEN LET i == CHOOSE k \in 1..Len(s) :
                      s[k] = Comma /\ \A j \in 1..(k - 1) : s[j] # Comma
         IN  <<SubSeq(s, 1, i - 1)>> \o split(SubSeq(s, i + 1, Len(s)))
    ELSE <<s>>

\* ------------------------------------------------------------------------
\* cleanse_k8s_resouces_csv
\* ------------------------------------------------------------------------
\* The condition under which a raw row is skipped as a whole.
SkipRow_noSentinel(images_str, image_ids_str) ==
    images_str = EmptyStr \/ image_ids_str = EmptyStr

SkipRow(images_str, image_ids_str) ==
    \/ images_str = EmptyStr
    \/ images_str = NoneStr
    \/ image_ids_str = EmptyStr
    \/ image_ids_str = NoneStr

\* The record built for one (image, digest) pair of a raw row.
new_row(row, img, img_id) ==
    [NAMESPACE   |-> row.NAMESPACE,
     PARENT_KIND |-> row.PARENT_KIND,
     PARENT_NAME |-> row.PARENT_NAME,
     IMAGE       |-> img,
     IMAGEID     |-> img_id]

\* Uniqueness check and append; acc is the pair (cleansed_data, seen_rows).
AddRow_noDedup(acc, row_tuple) ==
    [cleansed_data |-> Append(acc.cleansed_data, row_tuple),
     seen_rows     |-> acc.seen_rows \cup {row_tuple}]

AddRow(acc, row_tuple) ==
    IF row_tuple \notin acc.seen_rows
    THEN [cleansed_data |-> Append(acc.cleansed_data, row_tuple),
          seen_rows     |-> acc.seen_rows \cup {row_tuple}]
    ELSE acc

\* for img, img_id in zip(images, image_ids)
RECURSIVE CleanseZip(_, _, _, _, _)
CleanseZip(row, images, image_ids, i, acc) ==
    IF i > Len(images) \/ i > Len(image_ids)
    THEN acc
    ELSE CleanseZip(row, images, image_ids, i + 1,
                    AddRow(acc, new_row(row, images[i], image_ids[i])))

\* The body of the loop over the raw rows.
CleanseRow_noCountCheck(row, acc) ==
    IF SkipRow(row.IMAGE, row.IMAGEID)
    THEN acc
    ELSE CleanseZip(row, split(row.IMAGE), split(row.IMAGEID), 1, acc)

CleanseRow(row, acc) ==
    IF SkipRow(row.IMAGE, row.IMAGEID)
    THEN acc
    ELSE LET images    == split(row.IMAGE)
             image_ids == split(row.IMAGEID)
         IN  IF Len(images) # Len(image_ids)
             THEN acc
             ELSE CleanseZip(row, images, image_ids, 1, acc)

RECURSIVE CleanseLoop(_, _, _)
CleanseLoop(data, i, acc) ==
    IF i > Len(data)
    THEN acc
    ELSE CleanseLoop(data, i + 1, CleanseRow(data[i], acc))

\* The value cleanse_k8s_resouces_csv returns.
cleanse_k8s_resouces_csv(data) ==
    IF data = <<>>
    THEN <<>>
    ELSE CleanseLoop(data, 1, [cleansed_data |-> <<>>, seen_rows |-> {}]).cleansed_data

\* ------------------------------------------------------------------------
\* Files
\* ------------------------------------------------------------------------
exists(fs, path) == path \in DOMAIN fs

\* open(path, mode='w') followed by the writes and the close of the with block.
WriteFile_append(fs, path, content) ==
    [p \in (DOMAIN fs) \cup {path} |->
        IF p = path
        THEN (IF path \in DOMAIN fs THEN fs[path] ELSE <<>>) \o content
        ELSE fs[p]]

WriteFile(fs, path, content) ==
    [p \in (DOMAIN fs) \cup {path} |-> IF p = path THEN content ELSE fs[p]]

\* The values of one dictionary in the order of the field names.
RowValues(keys, row) == [k \in 1..Len(keys) |-> row[keys[k]]]

\* csv.DictWriter: writeheader() then writerows(rows).
CsvContent(keys, rows) ==
    <<keys>> \o [i \in 1..Len(rows) |-> RowValues(keys, rows[i])]

\* csv.DictReader: every line after the header becomes dict(zip(header, line)).
CsvRead(content) ==
    IF content = <<>>
    THEN <<>>
    ELSE LET header == content[1]
         IN  [i \in 1..(Len(content) - 1) |->
                 [h \in {header[k] : k \in 1..Len(header)} |->
                     content[i + 1][CHOOSE k \in 1..Len(header) : header[k] = h]]]

CleansedKeys == <<"NAMESPACE", "PARENT_KIND", "PARENT_NAME", "IMAGE", "IMAGEID">>

\* The file system after cleanse_k8s_resouces_csv(data, filepath).
CleanseSave(fs, data, filepath) ==
    LET cleansed_data == cleanse_k8s_resouces_csv(data)
    IN  IF cleansed_data # <<>>
        THEN WriteFile(fs, filepath, CsvContent(CleansedKeys, cleansed_data))
        ELSE fs

\* ------------------------------------------------------------------------
\* generate_final_report
\* ------------------------------------------------------------------------
\* str.endswith
endswith_equal(s, suffix) == s = suffix

endswith(s, suffix) ==
    /\ Len(suffix) <= Len(s)
    /\ SubSeq(s, Len(s) - Len(suffix) + 1, Len(s)) = suffix

\* Lexicographic order of two strings by code point (str.__lt__).
RECURSIVE StrLess(_, _)
StrLess(a, b) ==
    IF b = <<>> THEN FALSE
    ELSE IF a = <<>> THEN TRUE
    ELSE IF a[1] # b[1] THEN CharCode(a[1]) < CharCode(b[1])
    ELSE StrLess(Tail(a), Tail(b))

\* severity_order.get(severity, 99)
Unranked == 99
severity_rank_alpha(severity) ==
    CASE severity = "Critical" -> 0
      [] severity = "High"     -> 1
      [] severity = "Low"      -> 2
      [] severity = "Medium"   -> 3
      [] severity = "Info"     -> 4
      [] OTHER                 -> Unranked

severity_rank(severity) ==
    CASE severity = "Critical" -> 0
      [] severity = "High"     -> 1
      [] severity = "Medium"   -> 2
      [] severity = "Low"      -> 3
      [] severity = "Info"     -> 4
      [] OTHER                 -> Unranked

\* The grouping key of a matched (inventory row, scan row) pair.
group_key_noSeverity(k8s_row, wiz_row) ==
    <<k8s_row.NAMESPACE, k8s_row.PARENT_KIND, k8s_row.PARENT_NAME,
      k8s_row.IMAGE, wiz_row.AssetName, "Critical">>

group_key(k8s_row, wiz_row) ==
    <<k8s_row.NAMESPACE, k8s_row.PARENT_KIND, k8s_row.PARENT_NAME,
      k8s_row.IMAGE, wiz_row.AssetName, wiz_row.Severity>>

\* grouped_data is a dictionary in insertion order: a sequence of
\* [key, cves] entries with pairwise different keys.
GroupAdd(grouped_data, key, name) ==
    IF \E i \in 1..Len(grouped_data) : grouped_data[i].key = key
    THEN [i \in 1..Len(grouped_data) |->
             IF grouped_data[i].key = key
             THEN [key |-> key, cves |-> grouped_data[i].cves \cup {name}]
             ELSE grouped_data[i]]
    ELSE Append(grouped_data, [key |-> key, cves |-> {name}])

\* The inner loop over the scan rows for one inventory row.
RECURSIVE MatchWiz(_, _, _, _)
MatchWiz(k8s_row, wiz_data, j, grouped_data) ==
    IF j > Len(wiz_data)
    THEN grouped_data
    ELSE MatchWiz(k8s_row, wiz_data, j + 1,
                  IF endswith(k8s_row.IMAGEID, wiz_data[j].ImageId)
                  THEN GroupAdd(grouped_data, group_key(k8s_row, wiz_data[j]),
                                wiz_data[j].Name)
                  ELSE grouped_data)

\* The outer loop over the inventory rows.
RECURSIVE MatchK8s(_, _, _, _)
MatchK8s(k8s_data, wiz_data, i, grouped_data) ==
    IF i > Len(k8s_data)
    THEN grouped_data
    ELSE MatchK8s(k8s_data, wiz_data, i + 1,
                  MatchWiz(k8s_data[i], wiz_data, 1, grouped_data))

Grouped(k8s_data, wiz_data) == MatchK8s(k8s_data, wiz_data, 1, <<>>)

\* sorted(list(cves)): the elements of the set in ascending order.
RECURSIVE sorted(_)
sorted(cves) ==
    IF cves = {}
    THEN <<>>
    ELSE LET m == CHOOSE x \in cves : \A y \in cves : ~StrLess(y, x)
         IN  <<m>> \o sorted(cves \ {m})

\* ", ".join(names)
RECURSIVE join(_)
join(names) ==
    IF names = <<>> THEN <<>>
    ELSE IF Len(names) = 1 THEN names[1]
    ELSE names[1] \o <<",", " ">> \o join(Tail(names))

CvesField_unsorted(cves) ==
    LET RECURSIVE desc(_)
        desc(S) == IF S = {} THEN <<>>
                   ELSE LET m == CHOOSE x \in S : \A y \in S : ~StrLess(x, y)
                        IN  <<m>> \o desc(S \ {m})
    IN  join(desc(cves))

CvesField(cves) == join(sorted(cves))

ReportKeys ==
    <<"Cluster", "Image", "AssetName", "Severity", "CVEs", "Scan Date",
      "Namespace", "ParentKind", "ParentName">>

\* The dictionary built for one entry of grouped_data.
ReportRow(entry, cluster_name, scan_date) ==
    [h \in {ReportKeys[k] : k \in 1..Len(ReportKeys)} |->
        CASE h = "Cluster"    -> cluster_name
          [] h = "Image"      -> entry.key[4]
          [] h = "AssetName"  -> entry.key[5]
          [] h = "Severity"   -> entry.key[6]
          [] h = "CVEs"       -> CvesField(entry.cves)
          [] h = "Scan Date"  -> scan_date
          [] h = "Namespace"  -> entry.key[1]
          [] h = "ParentKind" -> entry.key[2]
          [] h = "ParentName" -> entry.key[3]]

\* The sort key (Namespace, AssetName, rank) and the order of two such tuples.
SortKey(row) ==
    <<row["Namespace"], row["AssetName"], severity_rank(row["Severity"])>>

KeyLess(a, b) ==
    IF a[1] # b[1] THEN StrLess(a[1], b[1])
    ELSE IF a[2] # b[2] THEN StrLess(a[2], b[2])
    ELSE a[3] < b[3]

\* list.sort(key=...) is stable: a row goes behind every row whose key is
\* not greater than its own.
InsertSorted_unstable(rows, row) ==
    LET n == Cardinality({i \in 1..Len(rows) : KeyLess(SortKey(rows[i]), SortKey(row))})
    IN  SubSeq(rows, 1, n) \o <<row>> \o SubSeq(rows, n + 1, Len(rows))

InsertSorted(rows, row) ==
    LET n == Cardinality({i \in 1..Len(rows) : ~KeyLess(SortKey(row), SortKey(rows[i]))})
    IN  SubSeq(rows, 1, n) \o <<row>> \o SubSeq(rows, n + 1, Len(rows))

RECURSIVE SortRows(_, _, _)
SortRows(rows, i, acc) ==
    IF i > Len(rows) THEN acc
    ELSE SortRows(rows, i + 1, InsertSorted(acc, rows[i]))

\* final_rows after the sort.
FinalRows(k8s_data, wiz_data, cluster_name, scan_date) ==
    LET grouped_data == Grouped(k8s_data, wiz_data)
        rows == [i \in 1..Len(grouped_data) |->
                    ReportRow(grouped_data[i], cluster_name, scan_date)]
    IN  SortRows(rows, 1, <<>>)

\* The Markdown artifact: title, blank line, header, rule, one line per row.
MdContent(keys, rows) ==
    << <<"# Container Vulnerability Report">>, <<>>, keys,
       [k \in 1..Len(keys) |-> "---"] >>
    \o [i \in 1..Len(rows) |-> RowValues(keys, rows[i])]

csv_path(output_base_path) == Append(output_base_path, ".csv")
md_path(output_base_path) == Append(output_base_path, ".md")

\* ------------------------------------------------------------------------
\* State of the calls
\* ------------------------------------------------------------------------
NoArgs ==
    [k8s_data |-> <<>>, wiz_data |-> <<>>, output_base_path |-> <<>>,
     cluster_name |-> "", scan_date |-> ""]

NoRequest ==
    [date |-> "", status |-> 0, message |-> "", fetches |-> 0,
     generated |-> 0, before |-> <<>>]

Requests == 1..MaxRequests

\* No download request has arrived; the clock shows second 0 of the day.
NoDownloads ==
    [pc   |-> [r \in Requests |-> "new"],
     date |-> [r \in Requests |-> ""],
     zip  |-> [r \in Requests |-> <<>>],
     time |-> 0]

GenIdle ==
    /\ gen_pc = "idle"
    /\ gen_args = NoArgs
    /\ gen_rows = <<>>
    /\ gen_opened = <<>>
    /\ gen_before = <<>>

CleanseIdle ==
    /\ cl_pc = "init"
    /\ cl_data = <<>>
    /\ cl_result = <<>>

\* if not final_rows: return
NoRows_never(final_rows) == FALSE

NoRows(final_rows) == final_rows = <<>>

\* The write failures a call can meet: fault names the step that fails,
\* n is the number of lines a failing write leaves in the file. A call that
\* produces no rows attempts no write and so meets no failure.
Faults == {"none", "csv_open", "csv_write", "md_open", "md_write"}

FaultPossible(final_rows, fault, n) ==
    IF NoRows(final_rows)
    THEN fault = "none" /\ n = 0
    ELSE CASE fault = "csv_write" -> n < Len(CsvContent(ReportKeys, final_rows))
           [] fault = "md_write"  -> n < Len(MdContent(ReportKeys, final_rows))
           [] OTHER               -> n = 0

\* The part of generate_final_report after the sort: the early return, the
\* CSV writer, then the Markdown writer. The result holds the file system,
\* the paths opened for writing and whether the call returned or raised.
SaveReport_mdFirst(fs, output_base_path, final_rows, fault, n) ==
    LET csv    == CsvContent(ReportKeys, final_rows)
        md     == MdContent(ReportKeys, final_rows)
        csvp   == csv_path(output_base_path)
        mdp    == md_path(output_base_path)
        mdDone == WriteFile(fs, mdp, md)
    IN  IF NoRows(final_rows)
        THEN [files |-> fs, opened |-> <<>>, pc |-> "returned"]
        ELSE CASE fault = "none" ->
                    [files |-> WriteFile(mdDone, csvp, csv),
                     opened |-> <<mdp, csvp>>, pc |-> "returned"]
               [] fault = "md_open" ->
                    [files |-> fs, opened |-> <<>>, pc |-> "raised"]
               [] fault = "md_write" ->
                    [files |-> WriteFile(fs, mdp, SubSeq(md, 1, n)),
                     opened |-> <<mdp>>, pc |-> "raised"]
               [] fault = "csv_open" ->
                    [files |-> mdDone, opened |-> <<mdp>>, pc |-> "raised"]
               [] fault = "csv_write" ->
                    [files |-> WriteFile(mdDone, csvp, SubSeq(csv, 1, n)),
                     opened |-> <<mdp, csvp>>, pc |-> "raised"]

SaveReport(fs, output_base_path, final_rows, fault, n) ==
    LET csv     == CsvContent(ReportKeys, final_rows)
        md      == MdContent(ReportKeys, final_rows)
        csvp    == csv_path(output_base_path)
        mdp     == md_path(output_base_path)
        csvDone == WriteFile(fs, csvp, csv)
    IN  IF NoRows(final_rows)
        THEN [files |-> fs, opened |-> <<>>, pc |-> "returned"]
        ELSE CASE fault = "none" ->
                    [files |-> WriteFile(csvDone, mdp, md),
                     opened |-> <<csvp, mdp>>, pc |-> "returned"]
               [] fault = "csv_open" ->
                    [files |-> fs, opened |-> <<>>, pc |-> "raised"]
               [] fault = "csv_write" ->
                    [files |-> WriteFile(fs, csvp, SubSeq(csv, 1, n)),
                     opened |-> <<csvp>>, pc |-> "raised"]
               [] fault = "md_open" ->
                    [files |-> csvDone, opened |-> <<csvp>>, pc |-> "raised"]
               [] fault = "md_write" ->
                    [files |-> WriteFile(csvDone, mdp, SubSeq(md, 1, n)),
                     opened |-> <<csvp, mdp>>, pc |-> "raised"]

\* One call of generate_final_report with its five arguments.
GenerateFinalReport(k8s_data, wiz_data, output_base_path, cluster_name, scan_date, fault, n) ==
    LET final_rows == FinalRows(k8s_data, wiz_data, cluster_name, scan_date)
        out == SaveReport(files, output_base_path, final_rows, fault, n)
    IN  /\ FaultPossible(final_rows, fault, n)
        /\ gen_args' = [k8s_data |-> k8s_data, wiz_data |-> wiz_data,
                        output_base_path |-> output_base_path,
                        cluster_name |-> cluster_name, scan_date |-> scan_date]
        /\ gen_rows' = final_rows
        /\ gen_before' = files
        /\ gen_pc' = out.pc
        /\ gen_opened' = out.opened
        /\ files' = out.files

\* ------------------------------------------------------------------------
\* Inputs of the cleansing runs
\* ------------------------------------------------------------------------
BoundedSeq(S, n) == UNION {[1..k -> S] : k \in 0..n}

\* The sequences of at most n pairwise different elements of S.
DistinctSeq(S, n) ==
    {s \in BoundedSeq(S, n) : \A i, j \in 1..Len(s) : s[i] = s[j] => i = j}

ns1 == <<"n", "s", "1">>
ns2 == <<"n", "s", "2">>
ns3 == <<"n", "s", "3">>

RawRow(ns, kind, name, image, image_id, cmdb) ==
    [NAMESPACE |-> ns, PARENT_KIND |-> kind, PARENT_NAME |-> name,
     IMAGE |-> image, IMAGEID |-> image_id, CMDB |-> cmdb]

\* Raw inventory rows: a valid row, the same row with another CMDB, rows
\* without image or digest, rows with lists of images and digests.
RawRows ==
    { RawRow(ns1, "Deployment", "dep1", <<"a">>, <<"x">>, "cmdb1"),
      RawRow(ns1, "Deployment", "dep1", <<"a">>, <<"x">>, "cmdb2"),
      RawRow(ns2, "Pod", "pod1", EmptyStr, <<"y">>, "cmdb2"),
      RawRow(ns1, "Deployment", "dep1", <<"b">>, NoneStr, "cmdb1"),
      RawRow(ns3, "DaemonSet", "ds1", <<"b">>, <<"y">>, "cmdb3"),
      RawRow(ns1, "Deployment", "dep1", <<"a", ",", "b">>, <<"x", ",", "y">>, "cmdb1"),
      RawRow(ns1, "Deployment", "dep1", <<"a", ",", "b">>, <<"x">>, "cmdb1"),
      RawRow(ns3, "DaemonSet", "ds1", <<"a", ",">> \o NoneStr, <<"x", ",", "y">>, "cmdb3"),
      RawRow(ns3, "DaemonSet", "ds1", <<"b", ",">>, <<"y", ",">>, "cmdb3") }

CleansedPath == <<"raw", "k8s-cleansed.csv">>

\* ------------------------------------------------------------------------
\* Cleansing runs: cleanse a raw sequence, then cleanse the result again
\* ------------------------------------------------------------------------
InitCleanse ==
    /\ cl_pc = "init"
    /\ cl_data \in BoundedSeq(RawRows, MaxRows)
    /\ cl_result = <<>>
    /\ files = <<>>
    /\ GenIdle
    /\ cvr = NoRequest
    /\ dl = NoDownloads

Cleanse ==
    /\ cl_pc = "init"
    /\ cl_result' = cleanse_k8s_resouces_csv(cl_data)
    /\ files' = CleanseSave(files, cl_data, CleansedPath)
    /\ cl_pc' = "cleansed"
    /\ UNCHANGED <<cl_data, gen_pc, gen_args, gen_rows, gen_opened, gen_before, cvr, dl>>

Recleanse ==
    /\ cl_pc = "cleansed"
    /\ cl_data' = cl_result
    /\ cl_result' = cleanse_k8s_resouces_csv(cl_result)
    /\ files' = CleanseSave(files, cl_result, CleansedPath)
    /\ cl_pc' = "recleansed"
    /\ UNCHANGED <<gen_pc, gen_args, gen_rows, gen_opened, gen_before, cvr, dl>>

NextCleanse == Cleanse \/ Recleanse

SpecCleanse == InitCleanse /\ [][NextCleanse]_vars

\* ------------------------------------------------------------------------
\* Properties of the cleansed inventory
\* ------------------------------------------------------------------------
HasComma(s) == \E i \in 1..Len(s) : s[i] = Comma

\* Every row carries one image and one digest.
SingleImageRows(data) ==
    \A i \in 1..Len(data) : ~HasComma(data[i].IMAGE) /\ ~HasComma(data[i].IMAGEID)

Usable(s) == s # EmptyStr /\ s # NoneStr

ValidRecord(r) == Usable(r.IMAGE) /\ Usable(r.IMAGEID)

FiveColumns(r) ==
    [NAMESPACE |-> r.NAMESPACE, PARENT_KIND |-> r.PARENT_KIND,
     PARENT_NAME |-> r.PARENT_NAME, IMAGE |-> r.IMAGE, IMAGEID |-> r.IMAGEID]

\* The positions of data at which a valid five-column tuple occurs first.
FirstOccurrences(data) ==
    {i \in 1..Len(data) :
        /\ ValidRecord(data[i])
        /\ \A j \in 1..(i - 1) : FiveColumns(data[j]) # FiveColumns(data[i])}

\* The k-th smallest element of a set of positions.
Kth(P, k) == CHOOSE i \in P : Cardinality({j \in P : j < i}) = k - 1

\* C1: for raw rows that each carry a single image and a single digest, the
\* cleanser returns exactly one record per distinct (NAMESPACE, PARENT_KIND,
\* PARENT_NAME, IMAGE, IMAGEID) tuple of the valid rows, in the order of first
\* occurrence; invalid rows contribute nothing and other columns (CMDB) never
\* make two rows distinct.
C1_DedupCorrect ==
    (cl_pc = "cleansed" /\ SingleImageRows(cl_data)) =>
        LET first == FirstOccurrences(cl_data)
        IN  /\ Len(cl_result) = Cardinality(first)
            /\ \A k \in 1..Len(cl_result) :
                   cl_result[k] = FiveColumns(cl_data[Kth(first, k)])

\* A run on three single-image rows: a tuple repeated with another CMDB and
\* an invalid row, leaving one record in the result.
C1_Witness ==
    /\ cl_pc = "cleansed"
    /\ SingleImageRows(cl_data)
    /\ Len(cl_data) = 3
    /\ Len(cl_result) = 1
    /\ \E i, j \in 1..Len(cl_data) :
          /\ i < j
          /\ cl_data[i] # cl_data[j]
          /\ FiveColumns(cl_data[i]) = FiveColumns(cl_data[j])
          /\ ValidRecord(cl_data[i])
    /\ \E i \in 1..Len(cl_data) : ~ValidRecord(cl_data[i])

\* C2: cleansing the cleanser's own output returns that output unchanged,
\* also for raw rows whose IMAGE and IMAGEID hold lists of equal length.
C2_Idempotent ==
    cl_pc = "recleansed" => cl_result = cl_data

\* C3: every record the cleanser returns has IMAGE and IMAGEID both non-empty
\* and both different from "<none>", also for rows split from lists.
C3_AllValid ==
    cl_pc # "init" => \A k \in 1..Len(cl_result) : ValidRecord(cl_result[k])

\* ------------------------------------------------------------------------
\* Inputs of the report runs
\* ------------------------------------------------------------------------
MaxInv == 2       \* longest inventory sequence handed to generate_final_report
MaxWiz == 3       \* longest scan sequence handed to generate_final_report

digest1 == <<"s", "h", "a", "2", "5", "6", ":",
             "1", "2", "3", "4", "5", "6", "7", "8", "9", "0">>
bare1 == <<"1", "2", "3", "4", "5", "6", "7", "8", "9", "0">>
tail1 == <<"7", "8", "9", "0">>
asset1 == <<"a", "s", "s", "e", "t", "1">>
asset2 == <<"a", "s", "s", "e", "t", "2">>
cve1 == <<"C", "V", "E", "-", "1">>
cve10 == <<"C", "V", "E", "-", "1", "0">>
cve9 == <<"C", "V", "E", "-", "9">>

InvRow(ns, kind, name, image, image_id) ==
    [NAMESPACE |-> ns, PARENT_KIND |-> kind, PARENT_NAME |-> name,
     IMAGE |-> image, IMAGEID |-> image_id]

WizRow(image_id, asset, severity, name) ==
    [ImageId |-> image_id, AssetName |-> asset, Severity |-> severity,
     Name |-> name]

inv1 == InvRow(ns1, "Deployment", "dep1", <<"a">>, digest1)
inv2 == InvRow(ns1, "Deployment", "dep2", <<"b">>, digest1)
inv3 == InvRow(ns2, "Pod", "pod1", <<"a">>, tail1)

InvRows == {inv1, inv2, inv3}

wiz1 == WizRow(bare1, asset1, "Critical", cve1)
wiz2 == WizRow(bare1, asset1, "Critical", cve10)
wiz3 == WizRow(tail1, asset1, "Critical", cve1)
wiz4 == WizRow(bare1, asset1, "Low", cve9)
wiz5 == WizRow(bare1, asset1, "Medium", cve1)
wiz6 == WizRow(bare1, asset1, "Unknown", EmptyStr)
wiz7 == WizRow(EmptyStr, asset2, "Info", cve9)

WizRows == {wiz1, wiz2, wiz3, wiz4, wiz5, wiz6, wiz7}

\* ------------------------------------------------------------------------
\* Report runs: one call of generate_final_report whose writes succeed, on
\* an inventory of pairwise different records (as the cleanser returns it)
\* and a scan sequence of pairwise different rows
\* ------------------------------------------------------------------------
\* No call has been made and no file exists.
InitReport ==
    /\ CleanseIdle
    /\ files = <<>>
    /\ GenIdle
    /\ cvr = NoRequest
    /\ dl = NoDownloads

\* The arguments of the call are fixed when the run starts.
InitRun ==
    /\ CleanseIdle
    /\ files = <<>>
    /\ gen_pc = "idle"
    /\ \E k8s_data \in DistinctSeq(InvRows, MaxInv),
          wiz_data \in DistinctSeq(WizRows, MaxWiz) :
          gen_args = [k8s_data |-> k8s_data, wiz_data |-> wiz_data,
                      output_base_path |-> <<"dummy_report">>,
                      cluster_name |-> "fsp02", scan_date |-> "2025-01-01"]
    /\ gen_rows = <<>>
    /\ gen_opened = <<>>
    /\ gen_before = <<>>
    /\ cvr = NoRequest
    /\ dl = NoDownloads

RunReport ==
    /\ gen_pc = "idle"
    /\ GenerateFinalReport(gen_args.k8s_data, gen_args.wiz_data,
                           gen_args.output_base_path, gen_args.cluster_name,
                           gen_args.scan_date, "none", 0)
    /\ UNCHANGED <<cl_pc, cl_data, cl_result, cvr, dl>>

NextReport == RunReport

SpecReport == InitRun /\ [][NextReport]_vars

\* ------------------------------------------------------------------------
\* Properties of the report rows
\* ------------------------------------------------------------------------
\* t ends with s: some prefix of t followed by s is t.
IsSuffixOf(s, t) == \E n \in 0..Len(t) : SubSeq(t, 1, n) \o s = t

\* The (inventory position, scan position) pairs of the last call whose
\* inventory IMAGEID ends with the scan ImageId.
MatchedPairs ==
    {p \in (1..Len(gen_args.k8s_data)) \X (1..Len(gen_args.wiz_data)) :
        IsSuffixOf(gen_args.wiz_data[p[2]].ImageId,
                   gen_args.k8s_data[p[1]].IMAGEID)}

PairKey(p) ==
    LET k == gen_args.k8s_data[p[1]]
        w == gen_args.wiz_data[p[2]]
    IN  <<k.NAMESPACE, k.PARENT_KIND, k.PARENT_NAME, k.IMAGE,
          w.AssetName, w.Severity>>

PairName(p) == gen_args.wiz_data[p[2]].Name

RowKey(row) ==
    <<row["Namespace"], row["ParentKind"], row["ParentName"], row["Image"],
      row["AssetName"], row["Severity"]>>

\* name occurs in text as a contiguous piece.
OccursIn(name, text) ==
    \E i \in 1..(Len(text) + 1) :
        /\ i + Len(name) - 1 <= Len(text)
        /\ SubSeq(text, i, i + Len(name) - 1) = name

\* The single row of the documented example.
ExampleRow ==
    [h \in {ReportKeys[k] : k \in 1..Len(ReportKeys)} |->
        CASE h = "Cluster"    -> gen_args.cluster_name
          [] h = "Image"      -> <<"a">>
          [] h = "AssetName"  -> asset1
          [] h = "Severity"   -> "Critical"
          [] h = "CVEs"       -> cve1
          [] h = "Scan Date"  -> gen_args.scan_date
          [] h = "Namespace"  -> ns1
          [] h = "ParentKind" -> "Deployment"
          [] h = "ParentName" -> "dep1"]

IsExample == gen_args.k8s_data = <<inv1>> /\ gen_args.wiz_data = <<wiz1>>

\* C4: a pair is matched exactly when the inventory IMAGEID ends with the scan
\* ImageId; the keys of the emitted rows are exactly the keys of the matched
\* pairs, every matched pair's Name appears in the row of its key, records in
\* no matched pair contribute to no row, and digest "sha256:1234567890" with
\* the single scan record {1234567890, asset1, Critical, CVE-1} yields exactly
\* one row (asset1, Critical, "CVE-1") written to <prefix>.csv and <prefix>.md.
C4_SuffixJoin ==
    gen_pc = "returned" =>
        /\ {RowKey(gen_rows[r]) : r \in 1..Len(gen_rows)}
              = {PairKey(p) : p \in MatchedPairs}
        /\ \A p \in MatchedPairs :
              \E r \in 1..Len(gen_rows) :
                 /\ RowKey(gen_rows[r]) = PairKey(p)
                 /\ OccursIn(PairName(p), gen_rows[r]["CVEs"])
        /\ IsExample =>
              /\ gen_rows = <<ExampleRow>>
              /\ gen_opened = <<csv_path(gen_args.output_base_path),
                                md_path(gen_args.output_base_path)>>
              /\ files[csv_path(gen_args.output_base_path)]
                    = <<ReportKeys, RowValues(ReportKeys, ExampleRow)>>
              /\ files[md_path(gen_args.output_base_path)][5]
                    = RowValues(ReportKeys, ExampleRow)

\* The documented example has run and its two artifacts exist.
C4_Witness ==
    /\ gen_pc = "returned"
    /\ IsExample
    /\ Len(gen_rows) = 1
    /\ exists(files, csv_path(gen_args.output_base_path))
    /\ exists(files, md_path(gen_args.output_base_path))

\* a comes before b in the lexicographic order of the code points.
LexBefore(a, b) ==
    \E k \in 1..(Len(b)) :
        /\ k <= Len(a) + 1
        /\ \A i \in 1..(k - 1) : a[i] = b[i]
        /\ \/ k = Len(a) + 1
           \/ CharCode(a[k]) < CharCode(b[k])

\* The pieces of names joined by ", ", built from the left.
RECURSIVE CommaSpaceJoined(_, _)
CommaSpaceJoined(names, k) ==
    IF k = 0 THEN <<>>
    ELSE IF k = 1 THEN names[1]
    ELSE CommaSpaceJoined(names, k - 1) \o <<",", " ">> \o names[k]

\* The Name values of the matched pairs with the given key.
NamesOfKey(key) == {PairName(p) : p \in {q \in MatchedPairs : PairKey(q) = key}}

\* C5: one report row per distinct GroupKey among the matched pairs, whose
\* CVEs field lists the distinct Name values of the matched pairs with that
\* key, each once, in lexicographically ascending order, joined by ", ".
C5_Aggregation ==
    gen_pc = "returned" =>
        /\ \A r1, r2 \in 1..Len(gen_rows) :
              RowKey(gen_rows[r1]) = RowKey(gen_rows[r2]) => r1 = r2
        /\ Len(gen_rows) = Cardinality({PairKey(p) : p \in MatchedPairs})
        /\ \A r \in 1..Len(gen_rows) :
              LET N == NamesOfKey(RowKey(gen_rows[r]))
              IN  \E names \in [1..Cardinality(N) -> N] :
                     /\ \A i \in 1..(Cardinality(N) - 1) :
                           LexBefore(names[i], names[i + 1])
                     /\ gen_rows[r]["CVEs"]
                           = CommaSpaceJoined(names, Cardinality(N))

\* Three matched scan rows of one key, two of them with the same identifier,
\* given in descending order of the identifiers: one row listing two.
C5_Witness ==
    /\ gen_pc = "returned"
    /\ gen_args.k8s_data = <<inv1>>
    /\ gen_args.wiz_data = <<wiz2, wiz1, wiz3>>
    /\ Len(gen_rows) = 1
    /\ gen_rows[1]["CVEs"] = cve1 \o <<",", " ">> \o cve10

\* The severity ranks of the ordering contract.
RankOf(severity) ==
    IF severity = "Critical" THEN 0
    ELSE IF severity = "High" THEN 1
    ELSE IF severity = "Medium" THEN 2
    ELSE IF severity = "Low" THEN 3
    ELSE IF severity = "Info" THEN 4
    ELSE 99

\* Row a has to come strictly before row b by (Namespace, AssetName, rank).
StrictlyBefore(a, b) ==
    \/ LexBefore(a["Namespace"], b["Namespace"])
    \/ /\ a["Namespace"] = b["Namespace"]
       /\ \/ LexBefore(a["AssetName"], b["AssetName"])
          \/ /\ a["AssetName"] = b["AssetName"]
             /\ RankOf(a["Severity"]) < RankOf(b["Severity"])

\* The position in the matching loops at which a group key is first created.
LoopPosition(p) == (p[1] - 1) * Len(gen_args.wiz_data) + p[2]

Created(key) ==
    CHOOSE n \in {LoopPosition(p) : p \in {q \in MatchedPairs : PairKey(q) = key}} :
        \A p \in {q \in MatchedPairs : PairKey(q) = key} : n <= LoopPosition(p)

\* C6: the serialized rows are in non-decreasing order of (Namespace,
\* AssetName, severityRank) with Critical=0, High=1, Medium=2, Low=3, Info=4 and
\* any other severity 99; rows equal on all three components keep the order
\* in which their group keys were first created during matching.
C6_Ordering ==
    gen_pc = "returned" =>
        \A i, j \in 1..Len(gen_rows) :
            i < j =>
               /\ ~StrictlyBefore(gen_rows[j], gen_rows[i])
               /\ ~StrictlyBefore(gen_rows[i], gen_rows[j]) =>
                     Created(RowKey(gen_rows[i])) < Created(RowKey(gen_rows[j]))

Severities(rows) == [r \in 1..Len(rows) |-> rows[r]["Severity"]]

\* Scan rows given as Low, Critical, Medium come out Critical, Medium, Low.
C6_Witness ==
    /\ gen_pc = "returned"
    /\ gen_args.k8s_data = <<inv1>>
    /\ gen_args.wiz_data = <<wiz4, wiz1, wiz5>>
    /\ Severities(gen_rows) = <<"Critical", "Medium", "Low">>

\* C7: when no inventory IMAGEID ends with any scan ImageId (also for an empty
\* inventory or an empty scan sequence), generate_final_report opens neither
\* artifact for writing and returns normally.
C7_EmptyShortCircuit ==
    (gen_pc # "idle" /\ MatchedPairs = {}) =>
        /\ gen_pc = "returned"
        /\ gen_opened = <<>>
        /\ files = gen_before

\* A call with inventory rows and scan rows, none of which match.
C7_Witness ==
    /\ gen_pc = "returned"
    /\ Len(gen_args.wiz_data) = 2
    /\ gen_args.k8s_data # <<>>
    /\ gen_args.wiz_data # <<>>
    /\ MatchedPairs = {}
    /\ gen_opened = <<>>

\* ------------------------------------------------------------------------
\* Repeated runs: calls of generate_final_report on one path prefix, one
\* after the other, with and without matches, with and without write failures
\* ------------------------------------------------------------------------
Prefixes == {<<"dummy_report">>}

RerunInventories == {<<inv1>>, <<inv3>>}
RerunScans == {<<wiz1>>, <<wiz4, wiz1>>}

Rerun ==
    /\ \E k8s_data \in RerunInventories, wiz_data \in RerunScans,
          output_base_path \in Prefixes, fault \in Faults :
          \E n \in 0..(Len(k8s_data) * Len(wiz_data) + 4) :
             GenerateFinalReport(k8s_data, wiz_data, output_base_path,
                                 "fsp02", "2025-01-01", fault, n)
    /\ UNCHANGED <<cl_pc, cl_data, cl_result, cvr, dl>>

NextRerun == Rerun

SpecRerun == InitReport /\ [][NextRerun]_vars

\* The report rows an artifact holds: the lines after the header of the CSV,
\* the lines after title, blank line, header and rule of the Markdown; an
\* absent artifact holds none.
CsvRowsHeld(fs, output_base_path) ==
    IF exists(fs, csv_path(output_base_path))
    THEN SubSeq(fs[csv_path(output_base_path)], 2,
                Len(fs[csv_path(output_base_path)]))
    ELSE <<>>

MdRowsHeld(fs, output_base_path) ==
    IF exists(fs, md_path(output_base_path))
    THEN SubSeq(fs[md_path(output_base_path)], 5,
                Len(fs[md_path(output_base_path)]))
    ELSE <<>>

RowsComputed == [r \in 1..Len(gen_rows) |-> RowValues(ReportKeys, gen_rows[r])]

\* C8 as stated: after every run that returns, both artifacts of the run's
\* prefix hold the rows computed by that run only.
C8_OverwriteEveryRun ==
    gen_pc = "returned" =>
        /\ CsvRowsHeld(files, gen_args.output_base_path) = RowsComputed
        /\ MdRowsHeld(files, gen_args.output_base_path) = RowsComputed

\* C8 (amended): a run that computes at least one row and returns overwrites
\* both artifacts of its prefix, which then hold exactly the header and the
\* rows of that run; a run that computes no row writes nothing and leaves
\* every file, the artifacts of an earlier run included, as it was.
C8_OverwriteWhenRows ==
    gen_pc = "returned" =>
        IF gen_rows # <<>>
        THEN /\ files[csv_path(gen_args.output_base_path)]
                   = CsvContent(ReportKeys, gen_rows)
             /\ files[md_path(gen_args.output_base_path)]
                   = MdContent(ReportKeys, gen_rows)
             /\ CsvRowsHeld(files, gen_args.output_base_path) = RowsComputed
             /\ MdRowsHeld(files, gen_args.output_base_path) = RowsComputed
        ELSE files = gen_before

\* A run with one row over artifacts that held two rows, and a run without
\* rows over artifacts that hold rows.
C8_Witness ==
    /\ gen_pc = "returned"
    /\ Len(gen_rows) = 1
    /\ exists(gen_before, csv_path(gen_args.output_base_path))
    /\ exists(gen_before, md_path(gen_args.output_base_path))
    /\ Len(CsvRowsHeld(gen_before, gen_args.output_base_path)) = 2
    /\ Len(MdRowsHeld(gen_before, gen_args.output_base_path)) = 2
    /\ Len(CsvRowsHeld(files, gen_args.output_base_path)) = 1

\* ------------------------------------------------------------------------
\* The HTTP layer: POST /upload, POST /cvr, and runs of the pipeline that
\* leave report artifacts under REPORT_DIR
\* ------------------------------------------------------------------------
RAW_DIR == "../data_cvr/raws"
REPORT_DIR == "../data_cvr/reports"
CLUSTER_NAME == "cluster"

wiz_csv_path(date_str) == <<RAW_DIR, date_str, "-wiz.csv">>
k8s_csv_path(date_str) == <<RAW_DIR, date_str, "-k8s.csv">>
cleansed_csv_path(date_str) == <<RAW_DIR, date_str, "-k8s-cleansed.csv">>
report_base_path(date_str) == <<REPORT_DIR, date_str, "-cvr">>

\* datetime.strptime(date_str, "%Y-%m-%d") succeeds on the calendar dates and
\* raises ValueError on any other text.
CalendarDates == {"2025-01-01", "2025-01-02"}
RequestDates == CalendarDates \cup {"01/01/2025"}
WellFormedDate(date_str) == date_str \in CalendarDates

\* What fetch_k8s_resources can return: nothing, or the rows of the cluster.
Snapshots == {<<>>, <<inv1>>}

WizKeys == <<"ImageId", "AssetName", "Severity", "Name">>
Uploads == {CsvContent(WizKeys, <<wiz1>>)}

\* The parameters of generate_final_report and the arguments POST /cvr
\* passes to it.
generate_final_report_params ==
    <<"k8s_data", "wiz_data", "output_base_path", "cluster_name", "scan_date">>

CvrCallArgs(k8s_cleansed_data, wiz_data, base_path, date_str) ==
    <<k8s_cleansed_data, wiz_data, base_path, date_str>>

\* POST /upload: the uploaded bytes become today's scan report.
UploadFile ==
    /\ \E today \in CalendarDates, content \in Uploads :
          files' = WriteFile(files, wiz_csv_path(today), content)
    /\ UNCHANGED <<cl_pc, cl_data, cl_result, gen_pc, gen_args, gen_rows,
                   gen_opened, gen_before, cvr, dl>>

Response(date_str, status, message, fetches, generated) ==
    [date |-> date_str, status |-> status, message |-> message,
     fetches |-> fetches, generated |-> generated, before |-> files]

\* POST /cvr with body {"date": date_str}; k8s_data is what the snapshot
\* fetch returns to this request.
PostCvr(date_str, k8s_data) ==
    IF ~WellFormedDate(date_str)
    THEN /\ cvr' = Response(date_str, 400, "Invalid date format. Use YYYY-MM-DD.", 0, 0)
         /\ UNCHANGED <<files, gen_pc, gen_args, gen_rows, gen_opened, gen_before>>
    ELSE IF ~exists(files, wiz_csv_path(date_str))
    THEN /\ k8s_data = <<>>
         /\ cvr' = Response(date_str, 404, "Wiz report not found. Please upload it first.", 0, 0)
         /\ UNCHANGED <<files, gen_pc, gen_args, gen_rows, gen_opened, gen_before>>
    ELSE LET rawSaved == IF k8s_data # <<>>
                         THEN WriteFile(files, k8s_csv_path(date_str),
                                        CsvContent(CleansedKeys, k8s_data))
                         ELSE files
             k8s_cleansed_data == cleanse_k8s_resouces_csv(k8s_data)
             cleansedSaved == CleanseSave(rawSaved, k8s_data, cleansed_csv_path(date_str))
             wiz_data == CsvRead(cleansedSaved[wiz_csv_path(date_str)])
             args == CvrCallArgs(k8s_cleansed_data, wiz_data,
                                 report_base_path(date_str), date_str)
         IN  IF Len(args) = Len(generate_final_report_params)
             THEN LET final_rows == FinalRows(args[1], args[2], args[4], args[5])
                      out == SaveReport(cleansedSaved, args[3], final_rows, "none", 0)
                  IN  /\ gen_args' = [k8s_data |-> args[1], wiz_data |-> args[2],
                                      output_base_path |-> args[3],
                                      cluster_name |-> args[4], scan_date |-> args[5]]
                      /\ gen_rows' = final_rows
                      /\ gen_before' = cleansedSaved
                      /\ gen_pc' = out.pc
                      /\ gen_opened' = out.opened
                      /\ files' = out.files
                      /\ cvr' = Response(date_str, 200, "Report generated successfully", 1, 1)
             ELSE \* TypeError: missing positional argument, caught as Exception
                  /\ files' = cleansedSaved
                  /\ cvr' = Response(date_str, 500, "TypeError", 1, 0)
                  /\ UNCHANGED <<gen_pc, gen_args, gen_rows, gen_opened, gen_before>>

GenerateReport ==
    /\ \E date_str \in RequestDates, k8s_data \in Snapshots :
          PostCvr(date_str, k8s_data)
    /\ UNCHANGED <<cl_pc, cl_data, cl_result, dl>>

\* A run of generate_final_report on the report prefix of a date.
RunPipeline ==
    /\ \E date_str \in CalendarDates, wiz_data \in {<<wiz1>>} :
          GenerateFinalReport(<<inv1>>, wiz_data, report_base_path(date_str),
                              CLUSTER_NAME, date_str, "none", 0)
    /\ UNCHANGED <<cl_pc, cl_data, cl_result, cvr, dl>>

NextApp == UploadFile \/ GenerateReport \/ RunPipeline

SpecApp == InitReport /\ [][NextApp]_vars

\* The last request carried a well-formed date whose scan report existed.
OnSuccessPath ==
    /\ cvr.status # 0
    /\ WellFormedDate(cvr.date)
    /\ exists(cvr.before, wiz_csv_path(cvr.date))

\* C9: POST /cvr with a well-formed date whose scan-report file exists fetches
\* the snapshot exactly once, invokes generate_final_report exactly once with
\* its five inputs and responds 200 "Report generated successfully".
C9_TriggerSucceeds ==
    OnSuccessPath =>
        /\ cvr.fetches = 1
        /\ cvr.generated = 1
        /\ cvr.status = 200
        /\ cvr.message = "Report generated successfully"

\* The report artifacts of the requested date existed before the last request.
ReportExisted ==
    /\ cvr.status # 0
    /\ exists(cvr.before, csv_path(report_base_path(cvr.date)))

\* C10: when the report artifact of a date exists, POST /cvr for that date
\* does not fetch the snapshot again and leaves the artifacts unchanged.
C10_SkipWhenReportExists ==
    ReportExisted =>
        /\ cvr.fetches = 0
        /\ \A path \in {csv_path(report_base_path(cvr.date)),
                        md_path(report_base_path(cvr.date))} :
              /\ exists(files, path) <=> exists(cvr.before, path)
              /\ exists(files, path) => files[path] = cvr.before[path]

\* ------------------------------------------------------------------------
\* Write failures
\* ------------------------------------------------------------------------
OpenedByRun(path) == \E k \in 1..Len(gen_opened) : gen_opened[k] = path

\* The last run opened its CSV artifact and left all its lines in it.
CsvWrittenByRun ==
    /\ OpenedByRun(csv_path(gen_args.output_base_path))
    /\ files[csv_path(gen_args.output_base_path)] = CsvContent(ReportKeys, gen_rows)

\* The last run opened its Markdown artifact and left all its lines in it.
MdWrittenByRun ==
    /\ OpenedByRun(md_path(gen_args.output_base_path))
    /\ files[md_path(gen_args.output_base_path)] = MdContent(ReportKeys, gen_rows)

\* C11: generate_final_report finishes the CSV artifact before it starts the
\* Markdown artifact and lets a write failure reach the caller: a run with
\* rows that returns has written both, a run that raised has written neither
\* or the CSV only, and no run has its Markdown written but its CSV not.
C11_CsvBeforeMarkdown ==
    gen_pc # "idle" =>
        /\ OpenedByRun(md_path(gen_args.output_base_path)) => CsvWrittenByRun
        /\ MdWrittenByRun => CsvWrittenByRun
        /\ gen_pc = "raised" => ~MdWrittenByRun
        /\ (gen_pc = "returned" /\ gen_rows # <<>>) =>
              CsvWrittenByRun /\ MdWrittenByRun

\* A run that raised while the Markdown artifact was being written: the CSV
\* of the run is complete, the Markdown holds fewer lines than the run has.
C11_Witness ==
    /\ gen_pc = "raised"
    /\ CsvWrittenByRun
    /\ OpenedByRun(md_path(gen_args.output_base_path))
    /\ ~MdWrittenByRun
    /\ Len(files[md_path(gen_args.output_base_path)]) = 5

\* ------------------------------------------------------------------------
\* Malformed rows
\* ------------------------------------------------------------------------
RECURSIVE Commas(_)
Commas(s) ==
    IF s = <<>> THEN 0
    ELSE (IF s[1] = Comma THEN 1 ELSE 0) + Commas(Tail(s))

\* The IMAGE list and the IMAGEID list of the row differ in length.
Malformed(row) == Commas(row.IMAGE) # Commas(row.IMAGEID)

RECURSIVE WithoutMalformed(_)
WithoutMalformed(data) ==
    IF data = <<>> THEN <<>>
    ELSE IF Malformed(data[1]) THEN WithoutMalformed(Tail(data))
    ELSE <<data[1]>> \o WithoutMalformed(Tail(data))

\* C12: a row whose IMAGE list and IMAGEID list have different lengths
\* contributes no record and does not abort the run; the result is the one
\* the same input without the malformed rows gives, in the same order.
C12_MalformedRowSkipped ==
    cl_pc = "cleansed" =>
        cl_result = cleanse_k8s_resouces_csv(WithoutMalformed(cl_data))

\* A run over a malformed row between two rows that give records.
C12_Witness ==
    /\ cl_pc = "cleansed"
    /\ Len(cl_data) = 3
    /\ Malformed(cl_data[2])
    /\ Usable(cl_data[2].IMAGE) /\ Usable(cl_data[2].IMAGEID)
    /\ ~Malformed(cl_data[1]) /\ ~Malformed(cl_data[3])
    /\ Len(cl_result) = 2

\* ------------------------------------------------------------------------
\* Scan rows with an empty Name or an empty ImageId
\* ------------------------------------------------------------------------
\* C13: every emitted report row has a non-empty CVEs field, for scan rows
\* with any string values, an empty Name included.
C13_CvesNonEmpty ==
    gen_pc = "returned" =>
        \A r \in 1..Len(gen_rows) : gen_rows[r]["CVEs"] # EmptyStr

\* C15: a scan record whose ImageId is empty is matched with no inventory
\* record, so its identifier appears in a report row only where a matched
\* scan record with a digest puts the same identifier under the same key.
C15_NoMatchOnEmptyDigest ==
    gen_pc = "returned" =>
        \A j \in 1..Len(gen_args.wiz_data) :
            gen_args.wiz_data[j].ImageId = EmptyStr =>
                \A r \in 1..Len(gen_rows) :
                    ( /\ gen_rows[r]["AssetName"] = gen_args.wiz_data[j].AssetName
                      /\ gen_rows[r]["Severity"] = gen_args.wiz_data[j].Severity
                      /\ OccursIn(gen_args.wiz_data[j].Name, gen_rows[r]["CVEs"]) )
                    => \E p \in MatchedPairs :
                          /\ gen_args.wiz_data[p[2]].ImageId # EmptyStr
                          /\ PairKey(p) = RowKey(gen_rows[r])
                          /\ PairName(p) = gen_args.wiz_data[j].Name

\* ------------------------------------------------------------------------
\* GET /download/{date}. The handler runs on the event loop without
\* awaiting, so two handlers never overlap; the response is sent and
\* cleanup_file is run afterwards, in worker threads, at any moment between
\* the steps of the other requests.
\* ------------------------------------------------------------------------
Today == "2025-01-02"

RemoveFile(fs, path) == [p \in (DOMAIN fs) \ {path} |-> fs[p]]

\* zip_filename and the arcnames without their extension: the timestamp is
\* part of the name only for today's report.
zip_stem(date, time) ==
    IF date = Today
    THEN <<CLUSTER_NAME, "-cvr-", date, "-", time>>
    ELSE <<CLUSTER_NAME, "-cvr-", date>>

zip_path(date, time) == <<REPORT_DIR, zip_stem(date, time), ".zip">>

\* The two members zipf.write puts into the archive.
ZipEntries(fs, date, time) ==
    << [arcname |-> Append(zip_stem(date, time), ".csv"),
        data    |-> fs[csv_path(report_base_path(date))]],
       [arcname |-> Append(zip_stem(date, time), ".md"),
        data    |-> fs[md_path(report_base_path(date))]] >>

\* The handler up to zipfile.ZipFile(zip_path, 'w'), which creates the file
\* or truncates the one that is there.
DownloadOpen(r, date) ==
    /\ dl.pc[r] = "new"
    /\ \A q \in Requests : dl.pc[q] # "zipping"
    /\ IF ~WellFormedDate(date)
       THEN /\ dl' = [dl EXCEPT !.pc[r] = "rejected", !.date[r] = date]
            /\ files' = files
       ELSE IF \/ ~exists(files, csv_path(report_base_path(date)))
               \/ ~exists(files, md_path(report_base_path(date)))
       THEN /\ dl' = [dl EXCEPT !.pc[r] = "rejected", !.date[r] = date]
            /\ files' = files
       ELSE /\ dl' = [dl EXCEPT !.pc[r] = "zipping", !.date[r] = date,
                                !.zip[r] = zip_path(date, dl.time)]
            /\ files' = WriteFile(files, zip_path(date, dl.time), <<>>)

\* The rest of the handler: both members are written, the archive is closed,
\* cleanup_file is scheduled and the FileResponse is returned. The members
\* reach the path only if the file was not removed since it was opened.
DownloadReturn(r) ==
    /\ dl.pc[r] = "zipping"
    /\ files' = IF exists(files, dl.zip[r])
                THEN WriteFile(files, dl.zip[r],
                               ZipEntries(files, dl.date[r],
                                          IF dl.date[r] = Today
                                          THEN dl.zip[r][2][5] ELSE 0))
                ELSE files
    /\ dl' = [dl EXCEPT !.pc[r] = "sending"]

\* FileResponse: the file at zip_path is read and sent, or the response
\* fails because the file is gone.
DownloadSend(r) ==
    /\ dl.pc[r] = "sending"
    /\ dl' = [dl EXCEPT !.pc[r] = IF exists(files, dl.zip[r])
                                  THEN "sent" ELSE "failed"]
    /\ files' = files

\* cleanup_file, the background task run after the response was sent.
cleanup_file(r) ==
    /\ dl.pc[r] = "sent"
    /\ files' = IF exists(files, dl.zip[r])
                THEN RemoveFile(files, dl.zip[r])
                ELSE files
    /\ dl' = [dl EXCEPT !.pc[r] = "done"]

DownloadZip ==
    /\ \E r \in Requests, date \in CalendarDates : DownloadOpen(r, date)
    /\ UNCHANGED <<cl_pc, cl_data, cl_result, gen_pc, gen_args, gen_rows,
                   gen_opened, gen_before, cvr>>

ZipAndReturn ==
    /\ \E r \in Requests : DownloadReturn(r)
    /\ UNCHANGED <<cl_pc, cl_data, cl_result, gen_pc, gen_args, gen_rows,
                   gen_opened, gen_before, cvr>>

SendResponse ==
    /\ \E r \in Requests : DownloadSend(r)
    /\ UNCHANGED <<cl_pc, cl_data, cl_result, gen_pc, gen_args, gen_rows,
                   gen_opened, gen_before, cvr>>

CleanupFile ==
    /\ \E r \in Requests : cleanup_file(r)
    /\ UNCHANGED <<cl_pc, cl_data, cl_result, gen_pc, gen_args, gen_rows,
                   gen_opened, gen_before, cvr>>

\* A second passes.
Tick ==
    /\ dl.time < MaxClock
    /\ dl' = [dl EXCEPT !.time = dl.time + 1]
    /\ UNCHANGED <<cl_pc, cl_data, cl_result, files, gen_pc, gen_args,
                   gen_rows, gen_opened, gen_before, cvr>>

\* The reports of both dates have been generated.
ReportsOf(fs, date) ==
    SaveReport(fs, report_base_path(date),
               FinalRows(<<inv1>>, <<wiz1>>, CLUSTER_NAME, date), "none", 0).files

InitDownload ==
    /\ CleanseIdle
    /\ GenIdle
    /\ cvr = NoRequest
    /\ dl = NoDownloads
    /\ files = ReportsOf(ReportsOf(<<>>, "2025-01-01"), "2025-01-02")

NextDownload == DownloadZip \/ ZipAndReturn \/ SendResponse \/ CleanupFile \/ Tick

SpecDownload == InitDownload /\ [][NextDownload]_vars

\* C14: for any interleaving of concurrent GET /download requests whose
\* report files exist, the zip file a request created exists and holds that
\* request's two entries until the request's response has been sent.
C14_DownloadIsolated ==
    \A r \in Requests :
        dl.pc[r] = "sending" =>
            /\ exists(files, dl.zip[r])
            /\ files[dl.zip[r]]
                  = ZipEntries(files, dl.date[r],
                               IF dl.date[r] = Today THEN dl.zip[r][2][5] ELSE 0)

====
